---- MODULE Spec2Model ----
(***************************************************************************)
(* Docker Hub image cleanup (cleanupdockerhub.py) as a state machine.      *)
(*                                                                         *)
(* The process is single-threaded.  One action is one stretch of code      *)
(* that ends at the next call to the outside world (requests.post,         *)
(* requests.get, requests.delete, the scheduler) or at the end of the      *)
(* process.  The registry and the clock are the environment.               *)
(*                                                                         *)
(* Time is counted in ticks, TicksPerDay ticks to the day, so that the     *)
(* whole-day age of a tag, timedelta.days, is a floor division.            *)
(***************************************************************************)
EXTENDS Integers, Sequences, FiniteSets

\* ------------------------------------------------------------------ bounds
MaxTags == 2        \* longest tag list of the repository under study
MaxTs == 2          \* latest last_updated tick a tag may carry
MaxNow == 2         \* the clock starts at tick 1 and stops advancing here
MaxRuns == 2        \* cleanup runs per process (the immediate one and the ticks)
MaxKeep == 1        \* largest KEEP_LAST_N
MaxMinAge == 1      \* largest MIN_AGE_DAYS
TicksPerDay == 2    \* clock ticks in one day
PageSize == 1       \* results per page (page_size=100 in the URLs)

\* ------------------------------------------------------------- input sets
TagNames == {"latest", "v1", "v2"}
RepoNames == <<"r1", "r2">>

\* tag["last_updated"]: the key is absent, the value is "", or it is an ISO
\* timestamp, kept as the tick it names.
NoTimestamp == [kind |-> "absent", t |-> 0]
EmptyTimestamp == [kind |-> "empty", t |-> 0]
IsoTimestamp(t) == [kind |-> "iso", t |-> t]
Timestamps == {NoTimestamp, EmptyTimestamp} \cup {IsoTimestamp(t) : t \in 0..MaxTs}

Tag(n, ts) == [name |-> n, last_updated |-> ts]
TagUniverse == {Tag(n, ts) : n \in TagNames, ts \in Timestamps}

\* Tag lists as the registry lists them: any order, names unique.
TagListsOfLen(k) ==
    {s \in [1..k -> TagUniverse] : \A i, j \in 1..k : i # j => s[i].name # s[j].name}
TagLists == UNION {TagListsOfLen(k) : k \in 0..MaxTags}

\* An HTTP exchange: a status code, or a network-level exception.
Response(status) == [status |-> status, error |-> "none"]
NetworkError(e) == [status |-> 0, error |-> e]
NetworkErrors == {NetworkError("ConnectionError"), NetworkError("Timeout")}
AuthResponses == {Response(s) : s \in {200, 401, 403, 500, 503}} \cup NetworkErrors
PageResponses == {Response(200), Response(500), NetworkError("Timeout")}
DeleteResponses == {Response(204), Response(500)} \cup NetworkErrors
NoResponse == [status |-> 0, error |-> "not called"]

VARIABLES
    \* configuration, read once from the environment
    DOCKERHUB_USERNAME, DOCKERHUB_TOKEN, KEEP_LAST_N, MIN_AGE_DAYS, DRY_RUN,
    REPOS_TO_CLEAN, EXCLUDE_TAGS, CRON_SCHEDULE,
    \* the environment
    registry,         \* repository name -> its tags, in listing order
    now,              \* datetime.now(timezone.utc), in ticks
    \* the process
    pc,               \* where the process stands
    wrapper,          \* "none", "oneshot" (main calls run_cleanup) or "safe"
    token,            \* run_cleanup's token
    repos,            \* run_cleanup's repos
    repo_idx,         \* position of the for loop over repos (0: not started)
    pg,               \* paginate's url and results, and who called it
    tags,             \* process_repo's tags
    rank,             \* number of tags the loop of process_repo has handled
    stats,            \* process_repo's stats
    totals,           \* run_cleanup's totals
    decisions,        \* evaluate_tag's results for the current repository
    trace,            \* the requests of the current run, with their answers
    exc,              \* the exception that ended the current run
    exit_code,        \* -1 while the process lives
    runs,             \* runs started
    summaries,        \* "Summary" banners logged
    logged_totals,    \* the totals of the last summary banner
    failures_logged   \* "Cleanup run failed" lines logged

config == <<DOCKERHUB_USERNAME, DOCKERHUB_TOKEN, KEEP_LAST_N, MIN_AGE_DAYS, DRY_RUN,
            REPOS_TO_CLEAN, EXCLUDE_TAGS, CRON_SCHEDULE>>
run_locals == <<token, repos, repo_idx, pg, tags, rank, stats, totals, decisions>>
vars == <<config, registry, now, pc, wrapper, run_locals, trace, exc, exit_code,
          runs, summaries, logged_totals, failures_logged>>

\* ------------------------------------------------------- Docker Hub helpers

\* raise_for_status that lets client errors through.
raise_for_status_server_errors_only(resp) == resp.status >= 500 /\ resp.status < 600

\* resp.raise_for_status(): HTTPError for a 4xx or 5xx status.
raise_for_status(resp) == resp.status >= 400 /\ resp.status < 600

\* The exception a requests call followed by raise_for_status ends with.
RaisedBy(resp) ==
    IF resp.error # "none" THEN resp.error
    ELSE IF raise_for_status(resp) THEN "HTTPError"
    ELSE "none"

\* delete_tag: no raise_for_status; only the network-level exception escapes.
DeleteRaises(resp) == resp.error

\* delete_tag's return value.
delete_tag(resp) == resp.status = 204

\* One page of a listing, and the "next" cursor it carries (0: null).
PageCount(listing) ==
    IF Len(listing) = 0 THEN 1 ELSE (Len(listing) + PageSize - 1) \div PageSize
PageResults(listing, p) ==
    SubSeq(listing, (p - 1) * PageSize + 1,
           IF p * PageSize < Len(listing) THEN p * PageSize ELSE Len(listing))
PageNext(listing, p) == IF p * PageSize < Len(listing) THEN p + 1 ELSE 0

\* The listing a paginate call walks: the namespace's repositories, or one
\* repository's tags.
InNamespace(r) == r \in DOMAIN registry
NamespaceRepos == SelectSeq(RepoNames, InNamespace)
ListingOf(what) ==
    IF what = "repos"
    THEN [i \in 1..Len(NamespaceRepos) |-> [name |-> NamespaceRepos[i]]]
    ELSE IF what \in DOMAIN registry THEN registry[what] ELSE <<>>

\* The registry after DELETE .../tags/{name}/ was answered 204.
WithoutTag(reg, repo, name) ==
    [r \in DOMAIN reg |->
        IF r = repo
        THEN LET keep == {i \in 1..Len(reg[r]) : reg[r][i].name # name}
                 idx(k) == CHOOSE i \in keep : Cardinality({j \in keep : j < i}) = k - 1
             IN [k \in 1..Cardinality(keep) |-> reg[r][idx(k)]]
        ELSE reg[r]]

\* get_tags' sort key, t.get("last_updated", ""): "" sorts below every timestamp.
SortKey(tag) == IF tag.last_updated.kind = "iso" THEN tag.last_updated.t + 1 ELSE 0

\* sorted(tags, key=..., reverse=True): descending, equal keys keep their order.
InsertNewestFirst(sorted, x) ==
    LET before == {i \in 1..Len(sorted) : SortKey(sorted[i]) >= SortKey(x)}
        k == Cardinality(before)
    IN SubSeq(sorted, 1, k) \o <<x>> \o SubSeq(sorted, k + 1, Len(sorted))

RECURSIVE SortedNewestFirst(_)
SortedNewestFirst(s) ==
    IF s = <<>> THEN <<>>
    ELSE InsertNewestFirst(SortedNewestFirst(SubSeq(s, 1, Len(s) - 1)), s[Len(s)])

\* ----------------------------------------------------------- deletion logic

\* (datetime.now(timezone.utc) - last_updated).days
AgeDays(ts) == (now - ts.t) \div TicksPerDay

\* evaluate_tag with the window test off by one: rank > KEEP_LAST_N.
evaluate_tag_window_off_by_one(tag, r) ==
    IF tag.name \in EXCLUDE_TAGS
    THEN [should_delete |-> FALSE, reason |-> "excluded"]
    ELSE IF tag.last_updated.kind # "iso"
    THEN [should_delete |-> FALSE, reason |-> "no timestamp"]
    ELSE IF r > KEEP_LAST_N /\ AgeDays(tag.last_updated) >= MIN_AGE_DAYS
    THEN [should_delete |-> TRUE, reason |-> "beyond keep and old enough"]
    ELSE IF r <= KEEP_LAST_N
    THEN [should_delete |-> FALSE, reason |-> "within window"]
    ELSE [should_delete |-> FALSE, reason |-> "too young"]

\* evaluate_tag with the window test inverted: rank < KEEP_LAST_N.
evaluate_tag_window_inverted(tag, r) ==
    IF tag.name \in EXCLUDE_TAGS
    THEN [should_delete |-> FALSE, reason |-> "excluded"]
    ELSE IF tag.last_updated.kind # "iso"
    THEN [should_delete |-> FALSE, reason |-> "no timestamp"]
    ELSE IF r < KEEP_LAST_N /\ AgeDays(tag.last_updated) >= MIN_AGE_DAYS
    THEN [should_delete |-> TRUE, reason |-> "beyond keep and old enough"]
    ELSE IF r >= KEEP_LAST_N
    THEN [should_delete |-> FALSE, reason |-> "within window"]
    ELSE [should_delete |-> FALSE, reason |-> "too young"]

evaluate_tag(tag, r) ==
    IF tag.name \in EXCLUDE_TAGS
    THEN [should_delete |-> FALSE, reason |-> "excluded"]
    ELSE IF tag.last_updated.kind # "iso"
    THEN [should_delete |-> FALSE, reason |-> "no timestamp"]
    ELSE LET beyond_keep == r >= KEEP_LAST_N
             old_enough == AgeDays(tag.last_updated) >= MIN_AGE_DAYS
         IN  IF beyond_keep /\ old_enough
             THEN [should_delete |-> TRUE, reason |-> "beyond keep and old enough"]
             ELSE IF ~beyond_keep
             THEN [should_delete |-> FALSE, reason |-> "within window"]
             ELSE [should_delete |-> FALSE, reason |-> "too young"]

\* ------------------------------------------------------------ control flow

ZeroStats == [checked |-> 0, deleted |-> 0, kept |-> 0, errors |-> 0]
NoPage == [what |-> "none", url |-> 0, results |-> <<>>]

Call(op, repo, tag, page, resp) ==
    [op |-> op, repo |-> repo, tag |-> tag, page |-> page,
     status |-> resp.status, error |-> resp.error]

\* safe_run_cleanup without its try/except.
Catches_nothing(w) == FALSE

\* safe_run_cleanup's try/except: does the caller of run_cleanup catch?
Catches(w) == w = "safe"

\* An exception e leaves run_cleanup: safe_run_cleanup logs it and returns to
\* the scheduler; in one-shot mode it ends the process with a failure status.
Propagate(e) ==
    /\ exc' = e
    /\ IF Catches(wrapper)
       THEN /\ pc' = "scheduler_wait"
            /\ failures_logged' = failures_logged + 1
            /\ exit_code' = exit_code
       ELSE /\ pc' = "exited"
            /\ exit_code' = 1
            /\ failures_logged' = failures_logged

\* run_cleanup returns normally.
RunReturns ==
    /\ exc' = exc
    /\ failures_logged' = failures_logged
    /\ IF wrapper = "safe"
       THEN pc' = "scheduler_wait" /\ exit_code' = exit_code
       ELSE pc' = "exited" /\ exit_code' = 0

\* paginate(url, token) is entered: results = [], url is the first page.
EnterPaginate(what) == pg' = [what |-> what, url |-> 1, results |-> <<>>]

\* The for loop of run_cleanup reaches position i of rs: process_repo is
\* entered and calls get_tags, or the loop is over.
EnterRepoLoop(rs, i, last_pg) ==
    /\ repos' = rs
    /\ repo_idx' = i
    /\ IF i <= Len(rs)
       THEN pc' = "paginate" /\ EnterPaginate(rs[i])
       ELSE pc' = "summary" /\ pg' = last_pg

\* run_cleanup is entered (lines 203-213 log the banner).
StartRun(w) ==
    /\ wrapper' = w
    /\ pc' = "get_token"
    /\ runs' = runs + 1
    /\ trace' = <<>>
    /\ exc' = "none"
    /\ token' = ""
    /\ repos' = <<>>
    /\ repo_idx' = 0
    /\ pg' = NoPage
    /\ tags' = <<>>
    /\ rank' = 0
    /\ stats' = ZeroStats
    /\ totals' = ZeroStats
    /\ decisions' = <<>>

\* CronTrigger.from_crontab: a crontab has five fields, else ValueError.
CronValid(c) == Len(c) = 5

\* main(), up to its first call of run_cleanup or its exit.
Main ==
    /\ pc = "main"
    /\ IF DOCKERHUB_USERNAME = "" \/ DOCKERHUB_TOKEN = ""
       THEN /\ pc' = "exited" /\ exit_code' = 1
            /\ UNCHANGED <<wrapper, run_locals, trace, exc, runs>>
       ELSE IF CRON_SCHEDULE = <<>>
       THEN StartRun("oneshot") /\ exit_code' = exit_code
       ELSE IF ~CronValid(CRON_SCHEDULE)
       THEN /\ pc' = "exited" /\ exit_code' = 1
            /\ UNCHANGED <<wrapper, run_locals, trace, exc, runs>>
       ELSE StartRun("safe") /\ exit_code' = exit_code
    /\ UNCHANGED <<config, registry, now, summaries, logged_totals, failures_logged>>

\* get_token(), and run_cleanup's choice of the repositories after it.
GetToken ==
    /\ pc = "get_token"
    /\ \E resp \in AuthResponses :
        /\ trace' = Append(trace, Call("post", "", "", 0, resp))
        /\ IF RaisedBy(resp) # "none"
           THEN /\ Propagate(RaisedBy(resp))
                /\ UNCHANGED run_locals
           ELSE /\ token' = "jwt"
                /\ IF REPOS_TO_CLEAN # <<>>
                   THEN EnterRepoLoop(REPOS_TO_CLEAN, 1, pg)
                   ELSE /\ pc' = "paginate"
                        /\ EnterPaginate("repos")
                        /\ UNCHANGED <<repos, repo_idx>>
                /\ UNCHANGED <<tags, rank, stats, totals, decisions, exc, exit_code,
                               failures_logged>>
    /\ UNCHANGED <<config, registry, now, wrapper, runs, summaries, logged_totals>>

\* results = data.get("results", []) in place of results.extend(...).
Extend_overwrites(results, page) == page

\* results.extend(data.get("results", []))
Extend(results, page) == results \o page

\* One turn of paginate's while loop: a GET, raise_for_status, extend, next.
\* When the cursor is exhausted paginate returns and its caller goes on:
\* get_repositories to the for loop of run_cleanup, get_tags to the sort and
\* the stats of process_repo.
PaginateStep ==
    /\ pc = "paginate"
    /\ \E resp \in PageResponses :
        LET listing == ListingOf(pg.what)
            results == Extend(pg.results, PageResults(listing, pg.url))
            next == PageNext(listing, pg.url)
            returned == [what |-> pg.what, url |-> 0, results |-> results]
        IN
        /\ trace' = Append(trace, Call("get", pg.what, "", pg.url, resp))
        /\ IF RaisedBy(resp) # "none"
           THEN /\ Propagate(RaisedBy(resp))
                /\ UNCHANGED run_locals
           ELSE /\ UNCHANGED <<token, totals, exc, exit_code, failures_logged>>
                /\ IF next # 0
                   THEN /\ pg' = [pg EXCEPT !.url = next, !.results = results]
                        /\ pc' = "paginate"
                        /\ UNCHANGED <<repos, repo_idx, tags, rank, stats, decisions>>
                   ELSE IF pg.what = "repos"
                   THEN /\ EnterRepoLoop([i \in 1..Len(results) |-> results[i].name], 1,
                                         returned)
                        /\ UNCHANGED <<tags, rank, stats, decisions>>
                   ELSE /\ pg' = returned
                        /\ tags' = SortedNewestFirst(results)
                        /\ stats' = [ZeroStats EXCEPT !.checked = Len(results)]
                        /\ rank' = 0
                        /\ decisions' = <<>>
                        /\ pc' = "tags_loop"
                        /\ UNCHANGED <<repos, repo_idx>>
    /\ UNCHANGED <<config, registry, now, wrapper, runs, summaries, logged_totals>>

\* CallsDelete without the DRY_RUN test.
CallsDelete_ignoring_dry_run(should_delete) == should_delete

\* process_repo issues requests.delete only for a tag to delete in a live run.
CallsDelete(should_delete) == should_delete /\ ~DRY_RUN

\* StatsAfter with the else branch of "if delete_tag(...)" lost.
StatsAfter_failure_uncounted(s, should_delete, resp) ==
    IF should_delete
    THEN IF DRY_RUN \/ delete_tag(resp) THEN [s EXCEPT !.deleted = @ + 1] ELSE s
    ELSE [s EXCEPT !.kept = @ + 1]

\* StatsAfter with delete_tag's return value ignored.
StatsAfter_result_ignored(s, should_delete, resp) ==
    IF should_delete THEN [s EXCEPT !.deleted = @ + 1] ELSE [s EXCEPT !.kept = @ + 1]

\* The counters after one tag (lines 173-187).
StatsAfter(s, should_delete, resp) ==
    IF should_delete
    THEN IF DRY_RUN
         THEN [s EXCEPT !.deleted = @ + 1]
         ELSE IF delete_tag(resp)
         THEN [s EXCEPT !.deleted = @ + 1]
         ELSE [s EXCEPT !.errors = @ + 1]
    ELSE [s EXCEPT !.kept = @ + 1]

\* One turn of the for loop of process_repo.
ProcessTag ==
    /\ pc = "tags_loop"
    /\ rank < Len(tags)
    /\ LET tag == tags[rank + 1]
           d == evaluate_tag(tag, rank)
           call == CallsDelete(d.should_delete)
           repo == repos[repo_idx]
       IN \E resp \in (IF call THEN DeleteResponses ELSE {NoResponse}) :
           /\ decisions' = Append(decisions, [name |-> tag.name,
                                              should_delete |-> d.should_delete,
                                              reason |-> d.reason])
           /\ trace' = IF call THEN Append(trace, Call("delete", repo, tag.name, 0, resp))
                       ELSE trace
           /\ IF call /\ DeleteRaises(resp) # "none"
              THEN /\ Propagate(DeleteRaises(resp))
                   /\ UNCHANGED <<registry, stats, rank>>
              ELSE /\ stats' = StatsAfter(stats, d.should_delete, resp)
                   /\ rank' = rank + 1
                   /\ registry' = IF call /\ delete_tag(resp)
                                  THEN WithoutTag(registry, repo, tag.name)
                                  ELSE registry
                   /\ UNCHANGED <<pc, exc, exit_code, failures_logged>>
    /\ UNCHANGED <<config, now, wrapper, token, repos, repo_idx, pg, tags, totals,
                   runs, summaries, logged_totals>>

\* process_repo returns stats; run_cleanup adds them to totals and goes on.
AddStats(t, s) ==
    [checked |-> t.checked + s.checked, deleted |-> t.deleted + s.deleted,
     kept |-> t.kept + s.kept, errors |-> t.errors + s.errors]

RepoReturn ==
    /\ pc = "tags_loop"
    /\ rank = Len(tags)
    /\ totals' = AddStats(totals, stats)
    /\ EnterRepoLoop(repos, repo_idx + 1, pg)
    /\ UNCHANGED <<config, registry, now, wrapper, token, tags, rank, stats, decisions,
                   trace, exc, exit_code, runs, summaries, logged_totals, failures_logged>>

\* The summary banner (lines 227-239), and run_cleanup returns.
Summary ==
    /\ pc = "summary"
    /\ summaries' = summaries + 1
    /\ logged_totals' = totals
    /\ RunReturns
    /\ UNCHANGED <<config, registry, now, wrapper, run_locals, trace, runs>>

\* The scheduler fires the job: safe_run_cleanup.
SchedulerTick ==
    /\ pc = "scheduler_wait"
    /\ runs < MaxRuns
    /\ StartRun("safe")
    /\ UNCHANGED <<config, registry, now, exit_code, summaries, logged_totals, failures_logged>>

\* KeyboardInterrupt or SystemExit in scheduler.start(): "Scheduler stopped."
SchedulerStop ==
    /\ pc = "scheduler_wait"
    /\ pc' = "exited"
    /\ exit_code' = 0
    /\ UNCHANGED <<config, registry, now, wrapper, run_locals, trace, exc, runs,
                   summaries, logged_totals, failures_logged>>

\* Time passes.
AdvanceClock ==
    /\ pc # "exited"
    /\ now < MaxNow
    /\ now' = now + 1
    /\ UNCHANGED <<config, registry, pc, wrapper, run_locals, trace, exc, exit_code,
                   runs, summaries, logged_totals, failures_logged>>

\* ------------------------------------------------------------ initial states

ValidCron == <<"0", "3", "*", "*", "0">>
ExcludeSets == {{}, {"latest"}}

\* The process starts at tick t.
ProcessStartAt(t) ==
    /\ now = t
    /\ pc = "main"
    /\ wrapper = "none"
    /\ token = ""
    /\ repos = <<>>
    /\ repo_idx = 0
    /\ pg = NoPage
    /\ tags = <<>>
    /\ rank = 0
    /\ stats = ZeroStats
    /\ totals = ZeroStats
    /\ decisions = <<>>
    /\ trace = <<>>
    /\ exc = "none"
    /\ exit_code = -1
    /\ runs = 0
    /\ summaries = 0
    /\ logged_totals = ZeroStats
    /\ failures_logged = 0

ProcessStart == ProcessStartAt(1)

\* One-shot mode: one repository with any tag list, named in REPOS_TO_CLEAN.
InitOneRepo ==
    /\ DOCKERHUB_USERNAME = "user"
    /\ DOCKERHUB_TOKEN = "secret"
    /\ KEEP_LAST_N \in 0..MaxKeep
    /\ MIN_AGE_DAYS \in 0..MaxMinAge
    /\ DRY_RUN \in BOOLEAN
    /\ EXCLUDE_TAGS \in ExcludeSets
    /\ REPOS_TO_CLEAN = <<"r1">>
    /\ CRON_SCHEDULE = <<>>
    /\ registry \in [{"r1"} -> TagLists]
    /\ ProcessStart

\* Two repositories with short tag lists, listed from the namespace or named
\* in REPOS_TO_CLEAN.
ShortTagLists == {<<>>, <<Tag("v1", IsoTimestamp(0))>>}

InitNamespace ==
    /\ DOCKERHUB_USERNAME = "user"
    /\ DOCKERHUB_TOKEN = "secret"
    /\ KEEP_LAST_N = 0
    /\ MIN_AGE_DAYS = 0
    /\ DRY_RUN \in BOOLEAN
    /\ EXCLUDE_TAGS = {"latest"}
    /\ REPOS_TO_CLEAN \in {<<>>, <<"r2", "r1">>}
    /\ CRON_SCHEDULE \in {<<>>, ValidCron}
    /\ registry \in [{"r1", "r2"} -> ShortTagLists]
    /\ ProcessStart

\* Missing credentials, or a crontab that is not one.
InitBadConfig ==
    /\ \E c \in {<<"", "secret", <<>>>>, <<"user", "", ValidCron>>, <<"", "", <<>>>>,
                 <<"user", "secret", <<"0", "3">>>>} :
          /\ DOCKERHUB_USERNAME = c[1]
          /\ DOCKERHUB_TOKEN = c[2]
          /\ CRON_SCHEDULE = c[3]
    /\ KEEP_LAST_N = 0
    /\ MIN_AGE_DAYS = 0
    /\ DRY_RUN = TRUE
    /\ EXCLUDE_TAGS = {"latest"}
    /\ REPOS_TO_CLEAN = <<>>
    /\ registry = [r \in {"r1"} |-> <<>>]
    /\ ProcessStart

Init == InitOneRepo \/ InitNamespace \/ InitBadConfig

Next ==
    \/ Main
    \/ GetToken
    \/ PaginateStep
    \/ ProcessTag
    \/ RepoReturn
    \/ Summary
    \/ SchedulerTick
    \/ SchedulerStop
    \/ AdvanceClock

Spec == Init /\ [][Next]_vars

\* Scheduled live runs over one repository with any tag list, "latest"
\* excluded, the clock standing at any tick: the runs of one schedule against
\* the same registry.
InitRepeat ==
    /\ DOCKERHUB_USERNAME = "user"
    /\ DOCKERHUB_TOKEN = "secret"
    /\ KEEP_LAST_N \in 0..MaxKeep
    /\ MIN_AGE_DAYS \in 0..MaxMinAge
    /\ DRY_RUN = FALSE
    /\ EXCLUDE_TAGS = {"latest"}
    /\ REPOS_TO_CLEAN = <<"r1">>
    /\ CRON_SCHEDULE = ValidCron
    /\ registry \in [{"r1"} -> TagLists]
    /\ \E t \in 1..MaxNow : ProcessStartAt(t)

\* The program's steps while the clock stands still.
NextFixedClock ==
    \/ Main
    \/ GetToken
    \/ PaginateStep
    \/ ProcessTag
    \/ RepoReturn
    \/ Summary
    \/ SchedulerTick
    \/ SchedulerStop

SpecFixedClock == InitRepeat /\ [][NextFixedClock]_vars

\* ==================================================================== claims

\* process_repo has run its loop to the end and is about to return stats.
ProcessReturns == pc = "tags_loop" /\ rank = Len(tags)

\* The run that was started last is over.
RunOver == runs >= 1 /\ pc \in {"scheduler_wait", "exited"}

CountWhere(seq, P(_)) == Cardinality({i \in 1..Len(seq) : P(seq[i])})
DeleteCalls(repo) == SelectSeq(trace, LAMBDA c : c.op = "delete" /\ c.repo = repo)
CurrentRepo == repos[repo_idx]

\* The whole number of days in a difference of ticks: the d with
\* d * TicksPerDay <= diff < (d + 1) * TicksPerDay.
WholeDays(diff) ==
    CHOOSE d \in -(MaxTs + 1)..(MaxNow + 1) :
        d * TicksPerDay <= diff /\ diff < (d + 1) * TicksPerDay

\* ---- C1
EligibleAsSpecified(tag, r) ==
    /\ tag.name \notin EXCLUDE_TAGS
    /\ tag.last_updated.kind = "iso"
    /\ r >= KEEP_LAST_N
    /\ WholeDays(now - tag.last_updated.t) >= MIN_AGE_DAYS

\* C1: for every tag of a repository's list, at the rank process_repo gives it,
\* at every time and under every configuration, evaluate_tag returns delete
\* exactly when the name is not excluded, the timestamp is present and
\* non-empty, rank >= KEEP_LAST_N and the age in whole days >= MIN_AGE_DAYS;
\* so a tag inside the window, an excluded tag or one without a timestamp is
\* kept at any age, rank = KEEP_LAST_N is the first eligible rank, an age of
\* MIN_AGE_DAYS is eligible and an age of MIN_AGE_DAYS - 1 is not.
C1_EvaluateContract ==
    pc = "tags_loop" =>
        \A i \in 1..Len(tags) :
            LET tag == tags[i]
                r == i - 1
                d == evaluate_tag(tag, r).should_delete
                iso == tag.last_updated.kind = "iso"
                age == WholeDays(now - tag.last_updated.t)
            IN /\ d <=> EligibleAsSpecified(tag, r)
               /\ r < KEEP_LAST_N => ~d
               /\ tag.name \in EXCLUDE_TAGS => ~d
               /\ ~iso => ~d
               /\ (iso /\ tag.name \notin EXCLUDE_TAGS /\ r = KEEP_LAST_N
                       /\ age = MIN_AGE_DAYS) => d
               /\ (iso /\ age = MIN_AGE_DAYS - 1) => ~d

\* process_repo deleted (or would delete) the tag at rank KEEP_LAST_N > 0 whose
\* age is exactly MIN_AGE_DAYS > 0, and kept the tags before it.
C1_Witness ==
    /\ pc = "tags_loop"
    /\ KEEP_LAST_N > 0
    /\ MIN_AGE_DAYS > 0
    /\ Len(decisions) = KEEP_LAST_N + 1
    /\ decisions[KEEP_LAST_N + 1].should_delete
    /\ AgeDays(tags[KEEP_LAST_N + 1].last_updated) = MIN_AGE_DAYS
    /\ decisions[1].reason = "within window"

\* ---- C2
\* C2: in dry-run mode process_repo issues no delete request, and the deleted
\* count it returns is the number of tags of the list that evaluate_tag
\* marked for deletion.
C2_DryRunDeletesNothing ==
    DRY_RUN =>
        /\ \A i \in 1..Len(trace) : trace[i].op # "delete"
        /\ ProcessReturns =>
              /\ Len(decisions) = Len(tags)
              /\ stats.deleted = CountWhere(decisions, LAMBDA d : d.should_delete)
              /\ stats.errors = 0

\* A dry run returns from a repository in which it would delete a tag.
C2_Witness ==
    /\ DRY_RUN
    /\ ProcessReturns
    /\ stats.deleted >= 1
    /\ stats.kept >= 1

\* ---- C10
\* C10: when process_repo returns, in either mode and whatever the deletes
\* answered, checked = deleted + kept + errors, checked is the length of the
\* fetched tag list and no counter is negative; while the loop runs, the tags
\* handled so far are counted once each.
C10_CountersAddUp ==
    pc = "tags_loop" =>
        /\ stats.checked = Len(tags)
        /\ stats.checked = Len(pg.results)
        /\ stats.deleted + stats.kept + stats.errors = rank
        /\ stats.deleted >= 0 /\ stats.kept >= 0 /\ stats.errors >= 0
        /\ ProcessReturns =>
              stats.checked = stats.deleted + stats.kept + stats.errors

\* A live run returns from a repository with a deletion and a failed deletion.
C10_Witness ==
    /\ ~DRY_RUN
    /\ ProcessReturns
    /\ stats.deleted = 1
    /\ stats.errors = 1

\* ---- steps, read off the trace
LastCall(t) == t[Len(t)]
MadeCall(op) == Len(trace') = Len(trace) + 1 /\ LastCall(trace').op = op

\* A call that ends in an exception: a network error, or a status that
\* raise_for_status rejects (requests.delete is not followed by it).
Transient(c) == c.error # "none" \/ c.status >= 500
CallRaised(c) == c.error # "none" \/ (c.op \in {"post", "get"} /\ c.status >= 400)

\* ---- C3
MarkedNames ==
    LET marked == SelectSeq(decisions, LAMBDA d : d.should_delete)
    IN [i \in 1..Len(marked) |-> marked[i].name]
CalledNames ==
    LET calls == DeleteCalls(CurrentRepo)
    IN [i \in 1..Len(calls) |-> calls[i].tag]
InTagsLoop ==
    \/ pc = "tags_loop"
    \/ RunOver /\ trace # <<>> /\ LastCall(trace).op = "delete" /\ CallRaised(LastCall(trace))

\* C3: in live mode process_repo issues one delete request for each tag that
\* evaluate_tag marked for deletion and none for any other tag, in rank order;
\* deleted counts the requests answered 204, errors the requests that
\* reported a failure, kept the tags not marked, and nothing else.
C3_LiveDeletesMarkedTags ==
    (~DRY_RUN /\ InTagsLoop) =>
        /\ CalledNames = MarkedNames
        /\ \A i \in 1..Len(decisions) : decisions[i].name = tags[i].name
        /\ stats.deleted = CountWhere(DeleteCalls(CurrentRepo), LAMBDA c : c.status = 204)
        /\ stats.errors = CountWhere(DeleteCalls(CurrentRepo),
                                     LAMBDA c : c.error = "none" /\ c.status # 204)
        /\ stats.kept = CountWhere(decisions, LAMBDA d : ~d.should_delete)
        /\ ProcessReturns => Len(decisions) = Len(tags)

\* A live run returns from a repository after two delete requests, the first
\* refused and the second answered 204.
C3_Witness ==
    /\ ~DRY_RUN
    /\ ProcessReturns
    /\ Len(CalledNames) = 2
    /\ DeleteCalls(CurrentRepo)[1].status = 500
    /\ DeleteCalls(CurrentRepo)[2].status = 204

\* ---- C4
\* C4 as claimed: however a delete request fails (a status other than 204, a
\* timeout, a connection error), process_repo counts it in errors and goes on
\* with the next tag.
C4_DeleteFailureNeverRaises ==
    [][(MadeCall("delete") /\ ~delete_tag(LastCall(trace')))
          => /\ pc' = "tags_loop"
             /\ rank' = rank + 1
             /\ stats' = [stats EXCEPT !.errors = @ + 1]
             /\ exc' = "none"]_vars

\* ---- C5
Attempted(repo) == \E i \in 1..Len(trace) : trace[i].op = "get" /\ trace[i].repo = repo

FailedOn(repo) ==
    \E i \in 1..Len(trace) :
        /\ trace[i].repo = repo
        /\ \/ trace[i].op = "get" /\ CallRaised(trace[i])
           \/ trace[i].op = "delete" /\ trace[i].status # 204

\* C5 as claimed: when the tag fetch or a deletion of a repository fails and
\* other repositories come after it, the run still fetches the tags of every
\* later repository and ends with its summary.
C5_RepositoriesIndependent ==
    RunOver =>
        \A i \in 1..Len(repos) :
            (i < Len(repos) /\ FailedOn(repos[i])) =>
                /\ \A j \in (i + 1)..Len(repos) : Attempted(repos[j])
                /\ exc = "none"
                /\ summaries >= 1

\* ---- C6
AttemptsInRetryTest == 3

\* C6 as claimed: a login attempt that fails transiently (a connection error,
\* a timeout, a 5xx answer) before the maximum number of attempts is followed
\* by a sleep and another attempt; the failure is not raised to the caller.
\* The maximum is at least the three attempts of the retry test.
C6_TransientLoginFailureRetried ==
    [][(MadeCall("post") /\ Transient(LastCall(trace'))
          /\ CountWhere(trace', LAMBDA c : c.op = "post") < AttemptsInRetryTest)
          => /\ pc' = "get_token"
             /\ exc' = "none"]_vars

\* ---- C7
\* C7: when the first login attempt is answered 401 or 403 there is no second
\* attempt and no sleep: the HTTPError ends the run at once, as a failure
\* status in one-shot mode and as a logged failure under the scheduler.
C7_NoRetryOnBadCredentials ==
    (trace # <<>> /\ trace[1].op = "post" /\ trace[1].status \in {401, 403}) =>
        /\ Len(trace) = 1
        /\ token = ""
        /\ exc = "HTTPError"
        /\ RunOver
        /\ wrapper = "oneshot" => exit_code = 1
        /\ wrapper = "safe" => failures_logged >= 1

\* The login of a one-shot run was answered 401.
C7_Witness ==
    /\ wrapper = "oneshot"
    /\ trace # <<>>
    /\ trace[1].op = "post"
    /\ trace[1].status = 401
    /\ pc = "exited"

\* ---- C8
\* C8: an exception raised in a run (login, listing, tag fetch, deletion) is
\* caught and logged in cron mode, where the process goes back to waiting
\* for the scheduler and never ends with a failure status, and the next tick
\* starts a fresh run; in one-shot mode it ends the process with a failure
\* status.
C8_FailurePolicyByMode ==
    [][/\ (Len(trace') = Len(trace) + 1 /\ CallRaised(LastCall(trace'))) =>
            IF CRON_SCHEDULE # <<>>
            THEN /\ pc' = "scheduler_wait"
                 /\ exit_code' = -1
                 /\ failures_logged' = failures_logged + 1
            ELSE /\ pc' = "exited"
                 /\ exit_code' = 1
                 /\ exc' # "none"
                 /\ failures_logged' = failures_logged
       /\ (wrapper' = "safe") => exit_code' # 1
       /\ (pc = "scheduler_wait" /\ runs' = runs + 1) =>
            /\ pc' = "get_token"
            /\ trace' = <<>>
            /\ exc' = "none"
            /\ totals' = ZeroStats
            /\ token' = ""]_vars

\* Under the scheduler a run failed and the run of the next tick reached its
\* summary.
C8_Witness ==
    /\ wrapper = "safe"
    /\ runs = 2
    /\ failures_logged = 1
    /\ summaries = 1
    /\ pc = "scheduler_wait"

\* ---- C9
PagesRequested(t, what) ==
    LET gets == SelectSeq(t, LAMBDA c : c.op = "get" /\ c.repo = what)
    IN [i \in 1..Len(gets) |-> gets[i].page]
PaginateReturned ==
    /\ pc = "paginate"
    /\ pc' \in {"paginate", "tags_loop", "summary"}
    /\ pc' = "paginate" => pg'.what # pg.what
PageRequestFailed == MadeCall("get") /\ CallRaised(LastCall(trace'))

\* C9: when paginate returns it has requested the pages of the listing once
\* each, in order, up to the page without a next cursor, and its caller gets
\* the pages' results joined in page order; when a page request fails the
\* exception ends the run and the caller has received nothing.
C9_PaginationComplete ==
    [][/\ PaginateReturned =>
            /\ PagesRequested(trace', pg.what)
                  = [i \in 1..PageCount(ListingOf(pg.what)) |-> i]
            /\ IF pg.what = "repos"
               THEN repos' = NamespaceRepos
               ELSE /\ pg'.results = ListingOf(pg.what)
                    /\ Len(tags') = Len(ListingOf(pg.what))
                    /\ \A i \in 1..Len(tags') :
                          \E j \in 1..Len(pg'.results) : tags'[i] = pg'.results[j]
       /\ PageRequestFailed =>
            /\ pc' \in {"scheduler_wait", "exited"}
            /\ exc' # "none"
            /\ <<repos', tags', stats', totals', decisions'>>
                  = <<repos, tags, stats, totals, decisions>>]_vars

\* get_tags received a listing longer than one page.
C9_Witness ==
    /\ pc = "tags_loop"
    /\ pg.url = 0
    /\ Len(pg.results) > PageSize
    /\ Len(tags) = Len(pg.results)

\* The run started last is not the first, and every run before it returned
\* from run_cleanup (the only run that may have failed is the last one), the
\* run just before it in live mode with no delete error: every delete call
\* it made was answered 204.
PreviousRunClean ==
    /\ runs >= 2
    /\ summaries = runs - 1
    /\ failures_logged = IF exc # "none" THEN 1 ELSE 0
    /\ ~DRY_RUN
    /\ logged_totals.errors = 0

\* C11: with the clock and the configuration fixed, a run that follows a
\* live run in which every delete call succeeded marks no tag for deletion,
\* issues no delete call and counts deleted = 0 and errors = 0, in the
\* repository's stats and in the totals of its summary.
C11_SecondRunDeletesNothing ==
    PreviousRunClean =>
        /\ \A i \in 1..Len(decisions) : ~decisions[i].should_delete
        /\ \A i \in 1..Len(trace) : trace[i].op # "delete"
        /\ stats.deleted = 0 /\ stats.errors = 0
        /\ totals.deleted = 0 /\ totals.errors = 0

\* The first run deleted a tag; the second run has gone through the
\* survivors, whose first one has no timestamp: it was listed behind the
\* deleted tag in the first run and has moved up.
C11_Witness ==
    /\ PreviousRunClean
    /\ runs = 2
    /\ logged_totals.deleted >= 1
    /\ ProcessReturns
    /\ Len(tags) >= 1
    /\ tags[1].last_updated.kind # "iso"
    /\ stats.kept = Len(tags)

====
